---- MODULE Spec2Model ----
(***************************************************************************)
(* State-machine model of data_cleaning_summary.py: the clean_data         *)
(* pipeline (load, remove_duplicates, handle_missing_values,               *)
(* standardize_text, standardize_dates, handle_outliers, validate_data,    *)
(* to_csv) over one in-memory table.                                       *)
(*                                                                         *)
(* Numbers are dyadic rationals stored as integers in units of 1/16, so    *)
(* that medians (halves), interpolated quartiles (quarters of halves) and  *)
(* 1.5 x IQR are exact, as they are in float64 for small values.           *)
(* Strings are sequences of characters; a character is a one-character     *)
(* string, or the name of a code point ("U+0130", "U+0307").               *)
(***************************************************************************)
EXTENDS Integers, Sequences, FiniteSets, TLC

VARIABLES pc, df, input, prev, events, report, saved, fillnaWritesThrough

vars == <<pc, df, input, prev, events, report, saved, fillnaWritesThrough>>

(***************************************************************************)
(* Bounds of the model.                                                    *)
(***************************************************************************)
MaxRows == 3

MaxColLen == 4

MaxNum == 3

MaxStrLen == 3

(***************************************************************************)
(* Characters: Python's str methods on the code points the model uses.     *)
(***************************************************************************)
LowerLetters ==
  <<"a","b","c","d","e","f","g","h","i","j","k","l","m",
    "n","o","p","q","r","s","t","u","v","w","x","y","z">>

UpperLetters ==
  <<"A","B","C","D","E","F","G","H","I","J","K","L","M",
    "N","O","P","Q","R","S","T","U","V","W","X","Y","Z">>

Digits == <<"0","1","2","3","4","5","6","7","8","9">>

\* the characters in code point order (str comparison is by code point)
CharOrder ==
  <<" ", "-">> \o Digits \o UpperLetters \o <<"_">> \o LowerLetters
    \o <<"U+0130", "U+0307">>

Range(s) == {s[i] : i \in 1..Len(s)}

IndexIn(c, s) == CHOOSE i \in 1..Len(s) : s[i] = c

Code(c) == IndexIn(c, CharOrder)

IsLowerLetter(c) == c \in Range(LowerLetters)

IsUpperLetter(c) == c \in Range(UpperLetters)

IsDigit(c) == c \in Range(Digits)

\* str.isspace of one character
IsSpace(c) == c = " "

\* _PyUnicode_IsCased: U+0130 (capital I with dot above) is cased, the
\* combining dot above U+0307 is not
IsCased(c) == IsLowerLetter(c) \/ IsUpperLetter(c) \/ c = "U+0130"

\* _PyUnicode_ToLowerFull: the lower case of one character, a string;
\* U+0130 lowers to the two characters "i" U+0307
ToLowerFull(c) ==
  IF IsUpperLetter(c) THEN <<LowerLetters[IndexIn(c, UpperLetters)]>>
  ELSE IF c = "U+0130" THEN <<"i", "U+0307">>
  ELSE <<c>>

\* _PyUnicode_ToTitleFull: the title case of one character
ToTitleFull(c) ==
  IF IsLowerLetter(c) THEN <<UpperLetters[IndexIn(c, LowerLetters)]>>
  ELSE <<c>>

RECURSIVE StrLower(_)
\* str.lower
StrLower(s) ==
  IF s = <<>> THEN <<>> ELSE ToLowerFull(Head(s)) \o StrLower(Tail(s))

RECURSIVE LStrip(_)
LStrip(s) ==
  IF s # <<>> /\ IsSpace(Head(s)) THEN LStrip(Tail(s)) ELSE s

RECURSIVE RStrip(_)
RStrip(s) ==
  IF s # <<>> /\ IsSpace(s[Len(s)]) THEN RStrip(SubSeq(s, 1, Len(s) - 1))
  ELSE s

\* str.strip with no argument
StrStrip(s) == RStrip(LStrip(s))

RECURSIVE TitleFrom(_, _)
\* the loop of str.title (do_title): a character that follows a cased
\* character is lowered, any other character is title-cased
TitleFrom(s, previousIsCased) ==
  IF s = <<>> THEN <<>>
  ELSE (IF previousIsCased THEN ToLowerFull(Head(s))
        ELSE ToTitleFull(Head(s)))
       \o TitleFrom(Tail(s), IsCased(Head(s)))

\* str.title
StrTitle(s) == TitleFrom(s, FALSE)

\* sub in s: s contains sub as a contiguous substring
Contains(s, sub) ==
  \E i \in 1..(Len(s) - Len(sub) + 1) : SubSeq(s, i, i + Len(sub) - 1) = sub

\* s < t in Python's str order (lexicographic by code point)
RECURSIVE StrLess(_, _)
StrLess(s, t) ==
  IF t = <<>> THEN FALSE
  ELSE IF s = <<>> THEN TRUE
  ELSE IF Head(s) = Head(t) THEN StrLess(Tail(s), Tail(t))
  ELSE Code(Head(s)) < Code(Head(t))

(***************************************************************************)
(* Cells and tables.  A cell is the null marker (NaN / None / NaT), a      *)
(* number, a string or a datetime.  A table has column names, one dtype    *)
(* per column and a sequence of rows, each row a sequence of cells.        *)
(***************************************************************************)
Null == [k |-> "null", v |-> 0, s |-> <<>>]

Num(n) == [k |-> "num", v |-> n, s |-> <<>>]

Str(s) == [k |-> "str", v |-> 0, s |-> s]

Dt(t) == [k |-> "dt", v |-> t, s |-> <<>>]

\* the stored value of the integer k (units of 1/16)
FromInt(k) == k * 16

NoTable == [names |-> <<>>, dtypes |-> <<>>, rows |-> <<>>]

NCols(t) == Len(t.names)

NRows(t) == Len(t.rows)

\* df[col]
Column(t, j) == [i \in 1..NRows(t) |-> t.rows[i][j]]

\* df[col] = values, the column taking the dtype of the assigned Series
SetColumn(t, j, col, dtype) ==
  [t EXCEPT !.dtypes[j] = dtype,
            !.rows = [i \in 1..NRows(t) |-> [t.rows[i] EXCEPT ![j] = col[i]]]]

\* Series.dropna
NonNull(col) == SelectSeq(col, LAMBDA c : c # Null)

\* Series.isnull().sum()
NullCount(col) == Len(col) - Len(NonNull(col))

\* df.select_dtypes(include=np.number).columns
NumCols(t) == {j \in 1..NCols(t) : t.dtypes[j] = "number"}

\* df.select_dtypes(exclude=np.number).columns
CatCols(t) == {j \in 1..NCols(t) : t.dtypes[j] # "number"}

\* df.select_dtypes(include="object").columns
ObjCols(t) == {j \in 1..NCols(t) : t.dtypes[j] = "object"}

RECURSIVE InsertSorted(_, _)
InsertSorted(x, s) ==
  IF s = <<>> THEN <<x>>
  ELSE IF x <= Head(s) THEN <<x>> \o s
  ELSE <<Head(s)>> \o InsertSorted(x, Tail(s))

RECURSIVE SortNums(_)
SortNums(s) ==
  IF s = <<>> THEN <<>> ELSE InsertSorted(Head(s), SortNums(Tail(s)))

\* the non-null numbers of a column, ascending
SortedValues(col) == SortNums([i \in 1..Len(NonNull(col)) |-> NonNull(col)[i].v])

(***************************************************************************)
(* remove_duplicates                                                       *)
(***************************************************************************)
RECURSIVE KeepFirst_KeepLast(_, _)
\* variant: keep="last", a row is dropped when a later row equals it
KeepFirst_KeepLast(rows, i) ==
  IF i > Len(rows) THEN <<>>
  ELSE (IF \E j \in (i + 1)..Len(rows) : rows[j] = rows[i] THEN <<>>
        ELSE <<rows[i]>>)
       \o KeepFirst_KeepLast(rows, i + 1)

RECURSIVE KeepFirst(_, _)
\* DataFrame.drop_duplicates (keep="first"): row i is dropped when an
\* earlier row equals it in every column; nulls compare equal
KeepFirst(rows, i) ==
  IF i > Len(rows) THEN <<>>
  ELSE (IF \E j \in 1..(i - 1) : rows[j] = rows[i] THEN <<>>
        ELSE <<rows[i]>>)
       \o KeepFirst(rows, i + 1)

\* variant: the result of drop_duplicates is not assigned back
RemoveDuplicatesDf_NotAssigned(t) == t

RemoveDuplicatesDf(t) == [t EXCEPT !.rows = KeepFirst(t.rows, 1)]

(***************************************************************************)
(* handle_missing_values                                                   *)
(***************************************************************************)
\* Series.median: nulls skipped; NaN for a column with no non-null value
Median(col) ==
  LET s == SortedValues(col)
      n == Len(s)
  IN IF n = 0 THEN Null
     ELSE IF n % 2 = 1 THEN Num(s[(n + 1) \div 2])
     ELSE Num((s[n \div 2] + s[n \div 2 + 1]) \div 2)

Count(col, c) == Len(SelectSeq(col, LAMBDA x : x = c))

\* the most frequent non-null values of a column
Modes(col) ==
  LET vals == Range(NonNull(col))
  IN {c \in vals : \A o \in vals : Count(col, o) <= Count(col, c)}

Unknown == Str(<<"U", "n", "k", "n", "o", "w", "n">>)

\* df[col].mode().iloc[0] if not df[col].mode().empty else "Unknown":
\* Series.mode returns the modes sorted, so iloc[0] is the smallest
ModeVal(col) ==
  IF Modes(col) = {} THEN Unknown
  ELSE CHOOSE m \in Modes(col) :
         \A o \in Modes(col) \ {m} : StrLess(m.s, o.s)

\* Series.fillna(value): filling with NaN fills nothing
FillNa(col, value) ==
  [i \in 1..Len(col) |-> IF col[i] = Null THEN value ELSE col[i]]

\* df[col].fillna(value, inplace=True): the fill is applied to the Series
\* that df[col] returned.  Whether that reaches df depends on the
\* installed pandas: before 3.0 the Series is a view of the frame's data,
\* from 3.0 on (copy-on-write) it always behaves as a copy and df is
\* left as it was.
FillNaInplace(t, j, value, writesThrough) ==
  IF writesThrough THEN SetColumn(t, j, FillNa(Column(t, j), value), t.dtypes[j])
  ELSE t

RECURSIVE FillNumCols(_, _, _)
\* for col in num_cols (left to right)
FillNumCols(t, j, writesThrough) ==
  IF j > NCols(t) THEN t
  ELSE FillNumCols(
         IF j \in NumCols(t)
         THEN FillNaInplace(t, j, Median(Column(t, j)), writesThrough)
         ELSE t,
         j + 1, writesThrough)

RECURSIVE FillCatCols(_, _, _)
\* for col in cat_cols (left to right)
FillCatCols(t, j, writesThrough) ==
  IF j > NCols(t) THEN t
  ELSE FillCatCols(
         IF j \in CatCols(t)
         THEN FillNaInplace(t, j, ModeVal(Column(t, j)), writesThrough)
         ELSE t,
         j + 1, writesThrough)

\* variant: rows with a missing value are dropped (df.dropna) rather than
\* imputed
HandleMissingValuesDf_DropRows(t, writesThrough) ==
  [t EXCEPT !.rows =
     SelectSeq(t.rows, LAMBDA r : \A j \in 1..NCols(t) : r[j] # Null)]

HandleMissingValuesDf(t, writesThrough) ==
  FillCatCols(FillNumCols(t, 1, writesThrough), 1, writesThrough)

(***************************************************************************)
(* standardize_text                                                        *)
(***************************************************************************)
\* str(value), as Series.astype(str) applies it: the cells of an object
\* column are strings or the null marker, and str(nan) is "nan"
AsStr(c) == IF c = Null THEN <<"n", "a", "n">> ELSE c.s

\* one value through .astype(str).str.strip().str.title()
StandardizeValue(c) == Str(StrTitle(StrStrip(AsStr(c))))

StandardizeColumn(col) == [i \in 1..Len(col) |-> StandardizeValue(col[i])]

RECURSIVE TextCols(_, _)
\* for col in obj_cols: df[col] = ...
TextCols(t, j) ==
  IF j > NCols(t) THEN t
  ELSE TextCols(
         IF j \in ObjCols(t)
         THEN SetColumn(t, j, StandardizeColumn(Column(t, j)), "object")
         ELSE t,
         j + 1)

StandardizeTextDf(t) == TextCols(t, 1)

(***************************************************************************)
(* standardize_dates                                                       *)
(***************************************************************************)
DateWord == <<"d", "a", "t", "e">>

\* "date" in col.lower()
IsDateName(name) == Contains(StrLower(name), DateWord)

\* the date strings of the model: groups of digits joined by single "-"
\* ("2024-1-5"); every other string fails to parse
IsDateString(s) ==
  /\ s # <<>>
  /\ \A i \in 1..Len(s) : IsDigit(s[i]) \/ s[i] = "-"
  /\ IsDigit(s[1]) /\ IsDigit(s[Len(s)])
  /\ \A i \in 1..(Len(s) - 1) : ~(s[i] = "-" /\ s[i + 1] = "-")

RECURSIVE DateValue(_, _)
\* the instant a date string denotes: its digits read as one number, so
\* two spellings of one date ("1-2", "12") denote the same instant
DateValue(s, acc) ==
  IF s = <<>> THEN acc
  ELSE IF IsDigit(Head(s))
       THEN DateValue(Tail(s), 10 * acc + (IndexIn(Head(s), Digits) - 1))
       ELSE DateValue(Tail(s), acc)

\* one value through pd.to_datetime(..., errors="coerce"): a null stays
\* null (NaT), a number is a count of nanoseconds since the epoch
\* (fractions truncated), a string is parsed and becomes NaT when it
\* does not parse
ToDatetime(c) ==
  IF c.k = "null" THEN Null
  ELSE IF c.k = "num" THEN Dt(c.v \div 16)
  ELSE IF c.k = "dt" THEN c
  ELSE IF IsDateString(c.s) THEN Dt(DateValue(c.s, 0))
  ELSE Null

\* variant: errors="raise", one value that does not parse makes the
\* call raise and the column is left as it was
ToDatetimeColumn_Raise(col) ==
  IF \E i \in 1..Len(col) : col[i].k = "str" /\ ~IsDateString(col[i].s)
  THEN col
  ELSE [i \in 1..Len(col) |-> ToDatetime(col[i])]

ToDatetimeColumn(col) == [i \in 1..Len(col) |-> ToDatetime(col[i])]

RECURSIVE DateCols(_, _)
\* for col in df.columns: if "date" in col.lower(): df[col] = ...
\* With errors="coerce" the call returns for the number and object columns
\* of the model, so the except branch (column left as it was) is not taken.
DateCols(t, j) ==
  IF j > NCols(t) THEN t
  ELSE DateCols(
         IF IsDateName(t.names[j])
         THEN SetColumn(t, j, ToDatetimeColumn(Column(t, j)), "datetime")
         ELSE t,
         j + 1)

StandardizeDatesDf(t) == DateCols(t, 1)

(***************************************************************************)
(* handle_outliers                                                         *)
(***************************************************************************)
\* Series.quantile(quarters / 4), linear interpolation, nulls skipped;
\* NaN for a column with no non-null value
Quantile(col, quarters) ==
  LET s == SortedValues(col)
      n == Len(s)
      pos4 == quarters * (n - 1)
      lo == pos4 \div 4 + 1
      hi == IF lo < n THEN lo + 1 ELSE lo
  IN IF n = 0 THEN Null
     ELSE Num(s[lo] + ((s[hi] - s[lo]) * (pos4 % 4)) \div 4)

\* q1 - 1.5 * iqr
LowerBound(col) ==
  LET q1 == Quantile(col, 1)
      q3 == Quantile(col, 3)
  IN IF q1 = Null THEN Null ELSE Num(q1.v - (3 * (q3.v - q1.v)) \div 2)

\* variant: q3 + iqr, the factor 1.5 left out
UpperBound_NoFactor(col) ==
  LET q1 == Quantile(col, 1)
      q3 == Quantile(col, 3)
  IN IF q1 = Null THEN Null ELSE Num(q3.v + (q3.v - q1.v))

\* q3 + 1.5 * iqr
UpperBound(col) ==
  LET q1 == Quantile(col, 1)
      q3 == Quantile(col, 3)
  IN IF q1 = Null THEN Null ELSE Num(q3.v + (3 * (q3.v - q1.v)) \div 2)

\* one value through Series.clip(lower, upper): a null stays null, and a
\* NaN bound bounds nothing
ClipValue(c, lower, upper) ==
  IF c = Null \/ lower = Null \/ upper = Null THEN c
  ELSE IF c.v < lower.v THEN lower
  ELSE IF c.v > upper.v THEN upper
  ELSE c

ClipColumn(col) ==
  [i \in 1..Len(col) |-> ClipValue(col[i], LowerBound(col), UpperBound(col))]

RECURSIVE OutlierCols(_, _)
\* for col in num_cols: df[col] = df[col].clip(lower, upper)
OutlierCols(t, j) ==
  IF j > NCols(t) THEN t
  ELSE OutlierCols(
         IF j \in NumCols(t)
         THEN SetColumn(t, j, ClipColumn(Column(t, j)), "number")
         ELSE t,
         j + 1)

HandleOutliersDf(t) == OutlierCols(t, 1)

(***************************************************************************)
(* validate_data                                                           *)
(***************************************************************************)
\* df.isnull().sum(): the number of nulls of each column
NullCounts(t) == [j \in 1..NCols(t) |-> NullCount(Column(t, j))]

(***************************************************************************)
(* The tables pd.read_csv can hand to the pipeline.  A column of the file  *)
(* holds numbers or text; an empty field is the null marker.  read_csv     *)
(* gives a column of numbers (empty fields included, even when every       *)
(* field is empty) a numeric dtype and a column with text the object       *)
(* dtype; a file with a header and no data row gives every column the      *)
(* object dtype.  Columns of booleans are not modelled.                    *)
(***************************************************************************)
ColScore == [name |-> <<"s", "c", "o", "r", "e">>, kind |-> "number"]

ColUpdated == [name |-> <<"u", "p", "d", "a", "t", "e", "d">>, kind |-> "number"]

ColName == [name |-> <<"n", "a", "m", "e">>, kind |-> "text"]

ColSignupDate ==
  [name |-> <<"S", "i", "g", "n", "u", "p", "_", "D", "a", "t", "e">>,
   kind |-> "text"]

Catalog == {ColScore, ColUpdated, ColName, ColSignupDate}

\* one or two distinct columns
Schemas ==
  {<<c>> : c \in Catalog}
    \cup {cd \in Catalog \X Catalog : cd[1] # cd[2]}

\* the fields a column of the file may hold
CellValues(c) ==
  IF c.kind = "number" THEN {Null, Num(FromInt(0)), Num(FromInt(MaxNum))}
  ELSE IF IsDateName(c.name) THEN {Null, Str(<<"1", "-", "2">>), Str(<<"x">>)}
  ELSE {Null, Str(<<"a">>), Str(<<" ", "A">>)}

RowsOf(schema) ==
  IF Len(schema) = 1 THEN {<<a>> : a \in CellValues(schema[1])}
  ELSE {<<a, b>> : a \in CellValues(schema[1]), b \in CellValues(schema[2])}

\* the dtype read_csv infers for column j
InferDtype(schema, rows, j) ==
  IF rows = <<>> THEN "object"
  ELSE IF schema[j].kind = "number" THEN "number"
  ELSE "object"

MakeTable(schema, rows) ==
  [names |-> [j \in 1..Len(schema) |-> schema[j].name],
   dtypes |-> [j \in 1..Len(schema) |-> InferDtype(schema, rows, j)],
   rows |-> rows]

\* a column is read as text only when some field of it is text
TextPresent(schema, rows) ==
  \A j \in 1..Len(schema) :
    (schema[j].kind = "text" /\ rows # <<>>)
      => \E i \in 1..Len(rows) : rows[i][j] # Null

\* t is a table read_csv can return: up to MaxRows rows of some schema
Loadable(t) ==
  \E schema \in Schemas : \E n \in 0..MaxRows : \E rows \in [1..n -> RowsOf(schema)] :
    /\ TextPresent(schema, rows)
    /\ t = MakeTable(schema, rows)

(***************************************************************************)
(* clean_data: pc names the statement that runs next.                      *)
(***************************************************************************)
Init ==
  /\ pc = "load"
  /\ df = NoTable
  /\ input = NoTable
  /\ prev = NoTable
  /\ events = <<>>
  /\ report = <<>>
  /\ saved = NoTable
  /\ fillnaWritesThrough \in BOOLEAN

\* df = pd.read_csv(input_path)
Load ==
  /\ pc = "load"
  /\ Loadable(df')
  /\ input' = df'
  /\ pc' = "remove_duplicates"
  /\ events' = Append(events, "load")
  /\ UNCHANGED <<prev, report, saved, fillnaWritesThrough>>

\* pd.read_csv raises (no such file, not a table): clean_data ends there
LoadFail ==
  /\ pc = "load"
  /\ pc' = "aborted"
  /\ UNCHANGED <<df, input, prev, events, report, saved, fillnaWritesThrough>>

\* df = remove_duplicates(df)
RemoveDuplicates ==
  /\ pc = "remove_duplicates"
  /\ prev' = df
  /\ df' = RemoveDuplicatesDf(df)
  /\ pc' = "handle_missing_values"
  /\ events' = Append(events, "remove_duplicates")
  /\ UNCHANGED <<input, report, saved, fillnaWritesThrough>>

\* df = handle_missing_values(df)
HandleMissingValues ==
  /\ pc = "handle_missing_values"
  /\ prev' = df
  /\ df' = HandleMissingValuesDf(df, fillnaWritesThrough)
  /\ pc' = "standardize_text"
  /\ events' = Append(events, "handle_missing_values")
  /\ UNCHANGED <<input, report, saved, fillnaWritesThrough>>

\* df = standardize_text(df)
StandardizeText ==
  /\ pc = "standardize_text"
  /\ prev' = df
  /\ df' = StandardizeTextDf(df)
  /\ pc' = "standardize_dates"
  /\ events' = Append(events, "standardize_text")
  /\ UNCHANGED <<input, report, saved, fillnaWritesThrough>>

\* df = standardize_dates(df)
StandardizeDates ==
  /\ pc = "standardize_dates"
  /\ prev' = df
  /\ df' = StandardizeDatesDf(df)
  /\ pc' = "handle_outliers"
  /\ events' = Append(events, "standardize_dates")
  /\ UNCHANGED <<input, report, saved, fillnaWritesThrough>>

\* df = handle_outliers(df)
HandleOutliers ==
  /\ pc = "handle_outliers"
  /\ prev' = df
  /\ df' = HandleOutliersDf(df)
  /\ pc' = "validate_data"
  /\ events' = Append(events, "handle_outliers")
  /\ UNCHANGED <<input, report, saved, fillnaWritesThrough>>

\* validate_data(df): prints df.info() and df.isnull().sum()
ValidateData ==
  /\ pc = "validate_data"
  /\ report' = NullCounts(df)
  /\ pc' = "to_csv"
  /\ events' = Append(events, "validate_data")
  /\ UNCHANGED <<df, input, prev, saved, fillnaWritesThrough>>

\* variant: the table is written before validate_data has run
Persist_BeforeValidate ==
  /\ pc = "validate_data"
  /\ saved' = df
  /\ pc' = "done"
  /\ events' = Append(events, "persist")
  /\ UNCHANGED <<df, input, prev, report, fillnaWritesThrough>>

\* output_path.parent.mkdir(...); df.to_csv(output_path, index=False)
Persist ==
  /\ pc = "to_csv"
  /\ saved' = df
  /\ pc' = "done"
  /\ events' = Append(events, "persist")
  /\ UNCHANGED <<df, input, prev, report, fillnaWritesThrough>>

\* mkdir or to_csv raises (permissions): nothing is written
PersistFail ==
  /\ pc = "to_csv"
  /\ pc' = "failed"
  /\ UNCHANGED <<df, input, prev, events, report, saved, fillnaWritesThrough>>

Next ==
  \/ Load
  \/ LoadFail
  \/ RemoveDuplicates
  \/ HandleMissingValues
  \/ StandardizeText
  \/ StandardizeDates
  \/ HandleOutliers
  \/ ValidateData
  \/ Persist
  \/ PersistFail

Spec == Init /\ [][Next]_vars

(***************************************************************************)
(* handle_outliers on its own: one numeric column of up to MaxColLen       *)
(* values drawn from 0..MaxNum and the null marker.                        *)
(***************************************************************************)
OutlierValues == {Null} \cup {Num(FromInt(k)) : k \in 0..MaxNum}

\* the table whose one column, numeric, is col
OutlierTable(col) ==
  [names |-> <<ColScore.name>>, dtypes |-> <<"number">>,
   rows |-> [i \in 1..Len(col) |-> <<col[i]>>]]

InitOutliers ==
  /\ pc = "handle_outliers"
  /\ \E n \in 0..MaxColLen : \E col \in [1..n -> OutlierValues] :
       df = OutlierTable(col)
  /\ input = df
  /\ prev = NoTable
  /\ events = <<>>
  /\ report = <<>>
  /\ saved = NoTable
  /\ fillnaWritesThrough \in BOOLEAN

SpecOutliers == InitOutliers /\ [][HandleOutliers]_vars

(***************************************************************************)
(* standardize_text on its own: one object column holding one string of    *)
(* up to MaxStrLen characters, or the null marker.                         *)
(***************************************************************************)
TextAlphabet == {"a", "B", " ", "1", "U+0130"}

\* the table whose one column, of dtype object, holds the one cell c
TextTable(c) ==
  [names |-> <<ColName.name>>, dtypes |-> <<"object">>, rows |-> <<<<c>>>>]

InitText ==
  /\ pc = "standardize_text"
  /\ \/ df = TextTable(Null)
     \/ \E n \in 0..MaxStrLen : \E s \in [1..n -> TextAlphabet] :
          df = TextTable(Str(s))
  /\ input = df
  /\ prev = NoTable
  /\ events = <<>>
  /\ report = <<>>
  /\ saved = NoTable
  /\ fillnaWritesThrough \in BOOLEAN

SpecText == InitText /\ [][StandardizeText]_vars

(***************************************************************************)
(* Properties.                                                             *)
(***************************************************************************)
NoDuplicateRows(t) ==
  \A i, j \in 1..NRows(t) : i # j => t.rows[i] # t.rows[j]

\* the positions of the rows of t that no earlier row equals
FirstOccurrences(t) ==
  {i \in 1..NRows(t) : \A j \in 1..(i - 1) : t.rows[j] # t.rows[i]}

\* the k-th smallest element of a set of numbers
Nth(S, k) == CHOOSE i \in S : Cardinality({j \in S : j <= i}) = k

SameColumns(t, u) == t.names = u.names /\ t.dtypes = u.dtypes

\* C1: the table remove_duplicates returns has no two identical rows, and
\* its rows are the first occurrences of the distinct rows of its input,
\* in their original order; an empty table stays empty.
C1_FirstOccurrencesKept ==
  pc = "handle_missing_values" =>
    /\ NoDuplicateRows(df)
    /\ NRows(df) = Cardinality(FirstOccurrences(prev))
    /\ \A k \in 1..NRows(df) : df.rows[k] = prev.rows[Nth(FirstOccurrences(prev), k)]
    /\ (prev.rows = <<>> => df.rows = <<>>)
    /\ SameColumns(df, prev)

\* a duplicate was removed from between rows that were kept
C1_Witness ==
  /\ pc = "handle_missing_values"
  /\ NRows(prev) = 3
  /\ prev.rows[1] = prev.rows[3]
  /\ prev.rows[1] # prev.rows[2]
  /\ NRows(df) = 2

\* C2: right after handle_missing_values no null remains anywhere: every
\* null of a numeric column was replaced by the median of the column's
\* non-null values, every null of a non-numeric column by its mode or by
\* "Unknown"; this for all tables, all-null numeric columns included.
\* (Stated for the pandas versions in which the in-place fill reaches the
\* table; in the others handle_missing_values fills nothing at all.)
C2_NoNullAfterImputation ==
  (pc = "standardize_text" /\ fillnaWritesThrough) =>
    \A j \in 1..NCols(df) :
      /\ NullCount(Column(df, j)) = 0
      /\ \A i \in 1..NRows(df) :
           df.rows[i][j] =
             IF prev.rows[i][j] # Null THEN prev.rows[i][j]
             ELSE IF j \in NumCols(prev) THEN Median(Column(prev, j))
             ELSE ModeVal(Column(prev, j))

\* C3: in the table that is validated and persisted, only a column whose
\* name contains "date" can hold a null.  (Stated, as C2, for the pandas
\* versions in which the in-place fill reaches the table.)
C3_NullsOnlyInDateColumns ==
  (pc \in {"validate_data", "to_csv", "done"} /\ fillnaWritesThrough) =>
    \A j \in 1..NCols(df) :
      ~IsDateName(df.names[j]) => NullCount(Column(df, j)) = 0

\* C4: after handle_outliers every value of a numeric column lies within
\* [Q1 - 1.5 IQR, Q3 + 1.5 IQR], the quartiles being those of the column
\* before clipping; a value inside the bounds is unchanged, one below
\* becomes the lower bound, one above the upper bound.  (An absent value
\* stays absent.)
C4_ClippedToIqrBounds ==
  pc = "validate_data" =>
    \A j \in NumCols(prev) :
      LET before == Column(prev, j)
          after == Column(df, j)
          q1 == Quantile(before, 1).v
          q3 == Quantile(before, 3).v
          lower == q1 - (3 * (q3 - q1)) \div 2
          upper == q3 + (3 * (q3 - q1)) \div 2
      IN \A i \in 1..Len(before) :
           IF before[i] = Null THEN after[i] = Null
           ELSE /\ after[i].k = "num"
                /\ lower <= after[i].v /\ after[i].v <= upper
                /\ (lower <= before[i].v /\ before[i].v <= upper
                      => after[i] = before[i])
                /\ (before[i].v < lower => after[i].v = lower)
                /\ (before[i].v > upper => after[i].v = upper)

\* one value was clipped to a bound and another was left as it was
C4_Witness ==
  /\ pc = "validate_data"
  /\ \E j \in NumCols(prev) :
       /\ \E i \in 1..NRows(df) :
            /\ prev.rows[i][j] # Null
            /\ df.rows[i][j] # prev.rows[i][j]
            /\ df.rows[i][j] = UpperBound(Column(prev, j))
       /\ \E i \in 1..NRows(df) :
            prev.rows[i][j] # Null /\ df.rows[i][j] = prev.rows[i][j]

\* C5: once the table is loaded no step adds a row, and every step other
\* than remove_duplicates leaves the row count as it was.
C5_RowCountNonIncreasing ==
  [][pc # "load" =>
       /\ NRows(df') <= NRows(df)
       /\ (pc # "remove_duplicates" => NRows(df') = NRows(df))]_vars

\* a run in which remove_duplicates removed a row and the table was saved
C5_Witness ==
  /\ pc = "done"
  /\ NRows(saved) < NRows(input)
  /\ NRows(saved) > 0

C7_TextIdempotent ==
  pc = "standardize_dates" =>
    /\ StandardizeTextDf(df) = df
    /\ \A j \in ObjCols(df) : \A i \in 1..NRows(df) :
         df.rows[i][j].k = "str"
           /\ df.rows[i][j].s = StrTitle(StrStrip(df.rows[i][j].s))
    /\ \A j \in NumCols(prev) : Column(df, j) = Column(prev, j)

EventOrder ==
  <<"load", "remove_duplicates", "handle_missing_values", "standardize_text",
    "standardize_dates", "handle_outliers", "validate_data", "persist">>

IsPrefix(s, t) == Len(s) <= Len(t) /\ s = SubSeq(t, 1, Len(s))

\* C8: the events of a run are, in this order, load, remove_duplicates,
\* handle_missing_values, standardize_text, standardize_dates,
\* handle_outliers, validate_data, persist, one at a time; a stage works
\* on the table the previous stage returned; after a failed load no stage
\* runs and nothing is saved; the table is saved only after validate_data.
C8_StagesInOrder ==
  /\ [](/\ IsPrefix(events, EventOrder)
        /\ (pc = "aborted" => events = <<>> /\ saved = NoTable)
        /\ (saved # NoTable => events = EventOrder /\ saved = df))
  /\ [][/\ Len(events') <= Len(events) + 1
        /\ (events' # events /\ pc # "load" /\ df' # df => prev' = df)
        /\ (events' = events => df' = df /\ saved' = saved)]_vars

\* a complete run that saved a table with rows
C8_Witness ==
  /\ pc = "done"
  /\ events = EventOrder
  /\ saved = df
  /\ NRows(saved) > 0

\* the table with column j renamed
Renamed(t, j, name) == [t EXCEPT !.names[j] = name]

\* the table clean_data hands to validate_data, for the loaded table t
CleanedDf(t, writesThrough) ==
  HandleOutliersDf(StandardizeDatesDf(StandardizeTextDf(
    HandleMissingValuesDf(RemoveDuplicatesDf(t), writesThrough))))

\* C9: a column that is numeric when loaded and whose name contains
\* "date" comes out of handle_missing_values and handle_outliers exactly
\* as a numeric column of any other name would: nulls filled with the
\* median, values clipped to the IQR bounds.
C9_DateNamedNumericTreatedAsNumeric ==
  pc = "validate_data" =>
    \A j \in 1..NCols(input) :
      (input.dtypes[j] = "number" /\ IsDateName(input.names[j]))
        => Column(df, j) =
             Column(CleanedDf(Renamed(input, j, <<"x">>), fillnaWritesThrough), j)

\* C10, as stated: the table clean_data persists has no two identical rows.
C10_NoDuplicatesPersisted ==
  pc = "done" => NoDuplicateRows(saved)

\* C10, amended: the table clean_data persists has exactly one row for
\* each distinct row of the loaded table (remove_duplicates leaves one,
\* no later stage drops or adds one); the rows need not stay distinct.
C10_OneRowPerDistinctInputRow ==
  pc = "done" => NRows(saved) = Cardinality(Range(input.rows))

\* remove_duplicates removed a row, and the stages after it made two of
\* the rows it kept identical
C10_Witness ==
  /\ pc = "done"
  /\ NRows(saved) < NRows(input)
  /\ ~NoDuplicateRows(saved)

====
